---- MODULE Spec2Model ----
(***************************************************************************)
(* Clara: routing of chat turns over three backend adapters, context       *)
(* assembly from the memory store, importance flagging and the HTTP        *)
(* handlers of app.py; and JoiOrchestrator, the orchestrator that keeps    *)
(* its history in memory (conversation_history; turns records every turn   *)
(* it completed).  Text is modelled as TLA+ strings, operated on character *)
(* by character (Len, SubSeq, \o).                                         *)
(***************************************************************************)
EXTENDS Integers, Sequences, FiniteSets, TLC

VARIABLES conversations, important_memories, current_model,
          claude_client, gemini_model, req, res, calls,
          conversation_history, turns

vars == <<conversations, important_memories, current_model,
          claude_client, gemini_model, req, res, calls,
          conversation_history, turns>>

(***************************************************************************)
(* Bounds                                                                  *)
(***************************************************************************)
MaxStore == 2
MaxTurns == 1
MaxCtxStore == 6
MaxWindowStore == 7
MaxTime == 2
MaxJoiTurns == 11
MaxLongTurn == 1

(***************************************************************************)
(* Python str operations                                                   *)
(***************************************************************************)
None == "<None>"

UpperAlpha == "ABCDEFGHIJKLMNOPQRSTUVWXYZ"
LowerAlpha == "abcdefghijklmnopqrstuvwxyz"

CharAt(s, i) == SubSeq(s, i, i)

\* the lower-case letter of every upper-case letter
LowerOf ==
    [ c \in { CharAt(UpperAlpha, i) : i \in 1..26 } |->
        CharAt(LowerAlpha, CHOOSE i \in 1..26 : CharAt(UpperAlpha, i) = c) ]

\* str.lower() on one character
LowerChar(c) == IF c \in DOMAIN LowerOf THEN LowerOf[c] ELSE c

\* str.lower()
RECURSIVE Lower(_)
Lower(s) ==
    IF Len(s) = 0 THEN ""
    ELSE IF Len(s) = 1 THEN LowerChar(s)
    ELSE LET h == Len(s) \div 2
         IN  Lower(SubSeq(s, 1, h)) \o Lower(SubSeq(s, h + 1, Len(s)))

\* a run of n blanks
RECURSIVE Blanks(_)
Blanks(n) ==
    IF n <= 0 THEN ""
    ELSE IF n = 1 THEN " "
    ELSE Blanks(n \div 2) \o Blanks(n - (n \div 2))

\* sub occurs in s at position i
OccursAt(s, sub, i) == SubSeq(s, i, i + Len(sub) - 1) = sub

\* Python's  sub in s
Contains(s, sub) ==
    \E i \in 1..(Len(s) - Len(sub) + 1) : OccursAt(s, sub, i)

\* str.find(sub), counted from 1: the first position at which sub occurs
Find(s, sub) ==
    CHOOSE i \in 1..(Len(s) - Len(sub) + 1) :
        /\ OccursAt(s, sub, i)
        /\ \A j \in 1..(i - 1) : ~OccursAt(s, sub, j)

Min(S) == CHOOSE x \in S : \A y \in S : x <= y

\* str.replace(old, new): every non-overlapping occurrence, left to right
RECURSIVE Replace(_, _, _)
Replace(s, old, new) ==
    IF ~Contains(s, old) THEN s
    ELSE SubSeq(s, 1, Find(s, old) - 1) \o new
         \o Replace(SubSeq(s, Find(s, old) + Len(old), Len(s)), old, new)

\* the sequence of the elements of a set of integers, ascending
RECURSIVE Ascending(_)
Ascending(S) ==
    IF S = {} THEN <<>> ELSE <<Min(S)>> \o Ascending(S \ {Min(S)})

\* str.split(): the maximal runs of non-blank characters, in order
Split(s) ==
    LET starts == { i \in 1..Len(s) :
                      /\ CharAt(s, i) # " "
                      /\ (i = 1 \/ CharAt(s, i - 1) = " ") }
        EndOf(i) == Min({ j \in i..Len(s) :
                            j = Len(s) \/ CharAt(s, j + 1) = " " })
        order == Ascending(starts)
    IN  [ k \in 1..Len(order) |-> SubSeq(s, order[k], EndOf(order[k])) ]

\* list[:n]
Take(seq, n) == SubSeq(seq, 1, IF n < Len(seq) THEN n ELSE Len(seq))

\* list[-n:]
LastN(seq, n) ==
    SubSeq(seq, (IF Len(seq) > n THEN Len(seq) - n + 1 ELSE 1), Len(seq))

\* list(reversed(seq))
Reverse(seq) == [ i \in 1..Len(seq) |-> seq[Len(seq) + 1 - i] ]

(***************************************************************************)
(* Program constants                                                       *)
(***************************************************************************)
complex_indicators ==
    << "analyze", "complex", "detailed", "explain in depth",
       "strategy", "comprehensive", "evaluate", "compare",
       "create", "write", "design", "plan", "research",
       "critique", "review", "assess", "synthesize" >>

LongMessage == 500

VoicePrefix == "[Respond concisely for voice - max 2-3 sentences] "

importance_keywords ==
    << "remember this", "important", "don't forget",
       "for future reference", "keep in mind" >>

personal_markers == << "my name is", "i work at", "i live in", "my favorite" >>

\* importance scores in tenths: 1.0, 0.8 and the threshold 0.5
ExplicitScore == 10
PersonalScore == 8
ImportantAbove == 5

RecentLimit == 5
KeywordLongerThan == 4
KeywordLimit == 3
SearchLimit == 2
ContextLimit == 20

DefaultModel == "dolphin-mistral:7b"
ClaudeModel == "claude-3-5-sonnet-20241022"
GeminiModel == "gemini-1.5-pro"

OllamaFallback ==
    "Having trouble accessing my local processing. Check if Ollama is running."
ClaudeNotConfigured ==
    "Claude integration not configured. Add ANTHROPIC_API_KEY to .env"
ClaudeRateLimited ==
    "I need to pace myself - too many complex thoughts at once. Try again in a moment."
ClaudeApiError == "Having trouble accessing my extended capabilities right now."
ClaudeUnexpected == "Something went wrong connecting to my extended processing."
GeminiNotConfigured ==
    "Gemini integration not configured. Add GOOGLE_API_KEY to .env"
GeminiFallback == "Having trouble accessing Gemini consciousness right now."

(***************************************************************************)
(* Messages of the model, and the text functions tabulated over them (the   *)
(* tables hold exactly what the operators compute; they only save work)     *)
(***************************************************************************)
\* messages for the routing heuristic: plain, a keyword in lower and in upper
\* case, part of a keyword, and 500 and 501 characters without a keyword
RouteMsgs ==
    { "hi", "plan it", "EXPLAIN IN DEPTH", "explain it",
      "hi" \o Blanks(LongMessage - 2), "hi" \o Blanks(LongMessage - 1) }

BaseMsgs == {"hi"}

\* what a provider answers when it answers
Reply == "ok. fine. done"

\* a message that has the voice instruction in it, and one that has not
VoiceMsgs == { "hi there", "hi " \o VoicePrefix \o "there" }

\* user texts with an explicit marker, a personal marker, both, neither
MemoryMsgs ==
    { "hi", "REMEMBER THIS", "My Favorite tea", "important: i live in Oslo" }

\* a response with a marker, and one without
MemoryResponses == { Reply, "that is important" }

\* three keywords and an importance marker; a keyword and no marker; neither
CtxMsgs == { "important matter today", "today", "hi" }

\* a long word three times before another one; four different long words;
\* a long word twice among short ones
KeywordMsgs ==
    { "today today today important",
      "important matter today again",
      "so today is today" }

KnownMsgs ==
    RouteMsgs \cup BaseMsgs \cup VoiceMsgs \cup MemoryMsgs \cup CtxMsgs
    \cup KeywordMsgs

\* the message as chat sends it to the adapter
SentTexts == KnownMsgs \cup { VoicePrefix \o m : m \in KnownMsgs }

\* the user texts that reach the store
KnownTexts == { Replace(t, VoicePrefix, "") : t \in SentTexts }

\* what a provider call can do: answer, or fail in one of the ways the
\* adapters distinguish
Outcomes == {"ok", "rate_limit", "api_error", "error"}

SummaryReply == "short answer"

\* the response texts that reach the store
ResponseTexts ==
    MemoryResponses \cup
    { OllamaFallback, ClaudeNotConfigured, ClaudeRateLimited,
      ClaudeApiError, ClaudeUnexpected, GeminiNotConfigured, GeminiFallback }

\* [word for word in message.split() if len(word) > 4]
RECURSIVE LongWords(_)
LongWords(words) ==
    IF words = <<>> THEN <<>>
    ELSE (IF Len(Head(words)) > KeywordLongerThan THEN <<Head(words)>> ELSE <<>>)
         \o LongWords(Tail(words))

\* keywords[:3] in get_relevant_context
Keywords(message) == Take(LongWords(Split(message)), KeywordLimit)

KeywordTable == [ m \in KnownMsgs |-> Keywords(m) ]

\* the keywords get_relevant_context searches for
keywords_of(message) ==
    IF message \in KnownMsgs THEN KeywordTable[message] ELSE Keywords(message)

KnownKeywords ==
    UNION { { KeywordTable[m][i] : i \in 1..Len(KeywordTable[m]) } :
            m \in KnownMsgs }

\* SQLite's  text LIKE '%query%' : case-insensitive on ASCII letters, with
\* '_' in the query matching any one character
Like(text, query) ==
    IF Contains(query, "_")
    THEN \E i \in 0..(Len(text) - Len(query)) :
             \A j \in 1..Len(query) :
                 \/ CharAt(query, j) = "_"
                 \/ LowerChar(CharAt(query, j)) = LowerChar(CharAt(text, i + j))
    ELSE Contains(Lower(text), Lower(query))

LikeTable ==
    [ t \in KnownTexts \cup ResponseTexts |->
        [ q \in KnownKeywords |-> Like(t, q) ] ]

\* the WHERE clause of search_memories on one column
like(text, query) ==
    IF text \in DOMAIN LikeTable /\ query \in KnownKeywords
    THEN LikeTable[text][query]
    ELSE Like(text, query)

\* the user_message argument of store_conversation in chat
StoredUserMessage(sent) == Replace(sent, VoicePrefix, "")

StoredTable == [ t \in SentTexts |-> StoredUserMessage(t) ]

\* message.replace(prefix, "") in chat
stored_user_message(sent) ==
    IF sent \in SentTexts THEN StoredTable[sent] ELSE StoredUserMessage(sent)

(***************************************************************************)
(* Backend adapters.  chat returns [raised, text]: raised is TRUE when the  *)
(* call leaves the adapter with an exception instead of a text.            *)
(***************************************************************************)
\* OllamaClient.chat
OllamaChat(outcome, reply) ==
    IF outcome = "ok"
    THEN [raised |-> FALSE, text |-> reply]
    ELSE [raised |-> FALSE, text |-> OllamaFallback]

\* AnthropicClient.is_available
ClaudeIsAvailable == claude_client

\* as ClaudeChat, the rate-limit error left to the caller
ClaudeChatRaising(outcome, reply) ==
    IF ~claude_client
    THEN [raised |-> FALSE, text |-> ClaudeNotConfigured]
    ELSE CASE outcome = "ok"         -> [raised |-> FALSE, text |-> reply]
           [] outcome = "rate_limit" -> [raised |-> TRUE, text |-> ""]
           [] outcome = "api_error"  -> [raised |-> FALSE, text |-> ClaudeApiError]
           [] OTHER                  -> [raised |-> FALSE, text |-> ClaudeUnexpected]

\* AnthropicClient.chat
ClaudeChat(outcome, reply) ==
    IF ~claude_client
    THEN [raised |-> FALSE, text |-> ClaudeNotConfigured]
    ELSE CASE outcome = "ok"         -> [raised |-> FALSE, text |-> reply]
           [] outcome = "rate_limit" -> [raised |-> FALSE, text |-> ClaudeRateLimited]
           [] outcome = "api_error"  -> [raised |-> FALSE, text |-> ClaudeApiError]
           [] OTHER                  -> [raised |-> FALSE, text |-> ClaudeUnexpected]

\* GeminiClient.is_available
GeminiIsAvailable == gemini_model

\* GeminiClient.chat
GeminiChat(outcome, reply) ==
    IF ~gemini_model
    THEN [raised |-> FALSE, text |-> GeminiNotConfigured]
    ELSE IF outcome = "ok"
         THEN [raised |-> FALSE, text |-> reply]
         ELSE [raised |-> FALSE, text |-> GeminiFallback]

\* OllamaClient.list_models: the live list, or [] when the call fails
ListModels(listing) == IF listing.ok THEN listing.names ELSE {}

\* as OllamaSwitchModel, the name not looked up in the list
OllamaSwitchModelUnchecked(model_name, listing) ==
    IF listing.ok
    THEN [ok |-> TRUE, model |-> model_name]
    ELSE [ok |-> FALSE, model |-> current_model]

\* OllamaClient.switch_model: [ok, model]
OllamaSwitchModel(model_name, listing) ==
    IF model_name \in ListModels(listing)
    THEN [ok |-> TRUE, model |-> model_name]
    ELSE [ok |-> FALSE, model |-> current_model]

(***************************************************************************)
(* Memory store.  A conversation's id is its position in conversations     *)
(* (AUTOINCREMENT, rows are never deleted).                                *)
(***************************************************************************)
\* any(keyword in text for keyword in keywords)
AnyIn(keywords, text) ==
    \E k \in 1..Len(keywords) : Contains(text, keywords[k])

Max(a, b) == IF a >= b THEN a ELSE b

\* as ImportanceScore, a personal marker setting the score instead of raising it
ImportanceScorePersonalLast(user_message) ==
    LET explicit == IF AnyIn(importance_keywords, Lower(user_message))
                    THEN ExplicitScore ELSE 0
    IN  IF AnyIn(personal_markers, Lower(user_message))
        THEN PersonalScore
        ELSE explicit

\* MemoryManager.check_importance: the score computed for a user message
ImportanceScore(user_message) ==
    LET explicit == IF AnyIn(importance_keywords, Lower(user_message))
                    THEN ExplicitScore ELSE 0
    IN  IF AnyIn(personal_markers, Lower(user_message))
        THEN Max(explicit, PersonalScore)
        ELSE explicit

ScoreTable == [ t \in KnownTexts |-> ImportanceScore(t) ]

\* importance_score at the end of check_importance
ScoreOf(user_message) ==
    IF user_message \in KnownTexts THEN ScoreTable[user_message]
    ELSE ImportanceScore(user_message)

\* MemoryManager.mark_important
MarkImportant(flags, conversation_id, importance_score) ==
    Append(flags, [conversation_id |-> conversation_id,
                   importance_score |-> importance_score])

\* as CheckImportance, the flag written for the id after the one given
CheckImportanceNextId(flags, conversation_id, user_message) ==
    IF ScoreOf(user_message) > ImportantAbove
    THEN MarkImportant(flags, conversation_id + 1, ScoreOf(user_message))
    ELSE flags

\* MemoryManager.check_importance
CheckImportance(flags, conversation_id, user_message) ==
    IF ScoreOf(user_message) > ImportantAbove
    THEN MarkImportant(flags, conversation_id, ScoreOf(user_message))
    ELSE flags

\* as InsertConversation, the newest row replaced instead of a row added
InsertConversationOverwrite(rows, now, user_message, joi_response, backend, model) ==
    LET row == [timestamp |-> now, user_message |-> user_message,
                joi_response |-> joi_response, backend |-> backend,
                model |-> model]
    IN  IF rows = <<>> THEN <<row>> ELSE [rows EXCEPT ![Len(rows)] = row]

\* the INSERT of MemoryManager.store_conversation
InsertConversation(rows, now, user_message, joi_response, backend, model) ==
    Append(rows, [timestamp |-> now, user_message |-> user_message,
                  joi_response |-> joi_response, backend |-> backend,
                  model |-> model])

\* MemoryManager.store_conversation: the two tables afterwards
StoreConversation(now, user_message, joi_response, backend, model) ==
    LET rows == InsertConversation(conversations, now, user_message,
                                   joi_response, backend, model)
    IN  [conversations |-> rows,
         important_memories |->
             CheckImportance(important_memories, Len(rows), user_message)]

\* lexicographic order on integer tuples of equal length
RECURSIVE KeyLess(_, _)
KeyLess(a, b) ==
    /\ a # <<>>
    /\ \/ Head(a) < Head(b)
       \/ Head(a) = Head(b) /\ KeyLess(Tail(a), Tail(b))

\* ORDER BY: every order of the rows S that is ascending in key; rows with
\* equal keys come out in any order
RECURSIVE OrderBy(_, _)
OrderBy(S, key) ==
    IF S = {} THEN {<<>>}
    ELSE UNION { { <<x>> \o rest : rest \in OrderBy(S \ {x}, key) } :
                 x \in { y \in S : \A z \in S : ~KeyLess(key[z], key[y]) } }

\* as get_recent_conversations, the rows taken from the oldest end
get_recent_conversations_oldest(limit) ==
    LET ids == 1..Len(conversations)
        key == [ c \in ids |-> << conversations[c].timestamp >> ]
    IN  { [ i \in 1..Len(Take(o, limit)) |-> conversations[o[i]] ] :
          o \in OrderBy(ids, key) }

\* MemoryManager.get_recent_conversations: the lists it can return
get_recent_conversations(limit) ==
    LET ids == 1..Len(conversations)
        key == [ c \in ids |-> << 0 - conversations[c].timestamp >> ]
    IN  { Reverse([ i \in 1..Len(Take(o, limit)) |-> conversations[o[i]] ]) :
          o \in OrderBy(ids, key) }

\* as JoinedScore, a row without a flag given the highest score
JoinedScoreDefault(row) ==
    IF row[2] = 0 THEN ExplicitScore
    ELSE important_memories[row[2]].importance_score

\* the importance_score column of the LEFT JOIN for one row; 0 stands for NULL
\* (a row is <<conversation id, flag position or 0>>)
JoinedScore(row) ==
    IF row[2] = 0 THEN 0 ELSE important_memories[row[2]].importance_score

\* MemoryManager.search_memories: the lists it can return
search_memories(query, limit) ==
    LET matching == { c \in 1..Len(conversations) :
                        \/ like(conversations[c].user_message, query)
                        \/ like(conversations[c].joi_response, query) }
        flagsOf(c) == { f \in 1..Len(important_memories) :
                          important_memories[f].conversation_id = c }
        rows == { <<c, f>> : c \in matching, f \in 0..Len(important_memories) } 
        joined == { r \in rows :
                      \/ r[2] \in flagsOf(r[1])
                      \/ r[2] = 0 /\ flagsOf(r[1]) = {} }
        key == [ r \in joined |->
                   << 0 - JoinedScore(r), 0 - conversations[r[1]].timestamp >> ]
    IN  { [ i \in 1..Len(Take(o, limit)) |->
              [timestamp |-> conversations[o[i][1]].timestamp,
               user_message |-> conversations[o[i][1]].user_message,
               joi_response |-> conversations[o[i][1]].joi_response,
               importance |-> JoinedScore(o[i])] ] :
          o \in OrderBy(joined, key) }

(***************************************************************************)
(* Orchestrator                                                            *)
(***************************************************************************)
\* the fragments of the recency window: a user/assistant pair per exchange
RECURSIVE RecentToContext(_)
RecentToContext(recent) ==
    IF recent = <<>> THEN <<>>
    ELSE << [role |-> "user", content |-> Head(recent).user_message],
            [role |-> "assistant", content |-> Head(recent).joi_response] >>
         \o RecentToContext(Tail(recent))

\* as InsertPair, the pair added at the end of the list
InsertPairAtEnd(context, mem) ==
    context \o << [role |-> "user", content |-> mem.user_message],
                  [role |-> "assistant", content |-> mem.joi_response] >>

\* context.insert(0, user fragment); context.insert(1, assistant fragment)
InsertPair(context, mem) ==
    << [role |-> "user", content |-> mem.user_message],
       [role |-> "assistant", content |-> mem.joi_response] >> \o context

\* the loop over the memories found for one keyword
RECURSIVE InsertMemories(_, _)
InsertMemories(context, memories) ==
    IF memories = <<>> THEN context
    ELSE InsertMemories(
             IF Head(memories).importance > ImportantAbove
             THEN InsertPair(context, Head(memories))
             ELSE context,
             Tail(memories))

\* the loop over the keywords: every list it can build from context
RECURSIVE SearchAndInsert(_, _)
SearchAndInsert(context, keywords) ==
    IF keywords = <<>> THEN {context}
    ELSE UNION { SearchAndInsert(InsertMemories(context, memories), Tail(keywords)) :
                 memories \in search_memories(Head(keywords), SearchLimit) }

\* ClaraOrchestrator.get_relevant_context before its final slice: every list
\* the reads of the store can produce
AssembledContexts(message) ==
    UNION { SearchAndInsert(RecentToContext(recent), keywords_of(message)) :
            recent \in get_recent_conversations(RecentLimit) }

\* as get_relevant_context, the slice one fragment longer
get_relevant_context_21(assembled) == LastN(assembled, ContextLimit + 1)

\* ClaraOrchestrator.get_relevant_context: context[-20:]
get_relevant_context(assembled) == LastN(assembled, ContextLimit)

\* as ChatBackend, the two fallback branches in the other order
ChatBackendGeminiFirst(use_claude, use_gemini, p62, p67) ==
    IF use_claude /\ ClaudeIsAvailable THEN "claude"
    ELSE IF use_gemini /\ GeminiIsAvailable THEN "gemini"
    ELSE IF GeminiIsAvailable /\ ~p67 THEN "gemini"
    ELSE IF ClaudeIsAvailable /\ ~p62 THEN "claude"
    ELSE "ollama"

\* the if/elif chain of ClaraOrchestrator.chat; p62 and p67 are what
\* ollama.test_connection() returns at line 62 and at line 67
ChatBackend(use_claude, use_gemini, p62, p67) ==
    IF use_claude /\ ClaudeIsAvailable THEN "claude"
    ELSE IF use_gemini /\ GeminiIsAvailable THEN "gemini"
    ELSE IF ClaudeIsAvailable /\ ~p62 THEN "claude"
    ELSE IF GeminiIsAvailable /\ ~p67 THEN "gemini"
    ELSE "ollama"

\* the chat call of the chosen adapter
AdapterChat(backend, outcome, reply) ==
    CASE backend = "claude" -> ClaudeChat(outcome, reply)
      [] backend = "gemini" -> GeminiChat(outcome, reply)
      [] OTHER              -> OllamaChat(outcome, reply)

\* the model identifier chat reports for the chosen adapter
ModelOf(backend) ==
    CASE backend = "claude" -> ClaudeModel
      [] backend = "gemini" -> GeminiModel
      [] OTHER              -> current_model

\* as chat, the first reachability probe taken as failed in voice mode
chat_voice_unprobed(message, use_claude, use_gemini, voice_mode, in) ==
    LET context == get_relevant_context(in.assembled)
        sent    == IF voice_mode THEN VoicePrefix \o message ELSE message
        backend == ChatBackend(use_claude, use_gemini,
                               in.p62 /\ ~voice_mode, in.p67)
        answer  == AdapterChat(backend, in.outcome, in.reply)
        stored  == StoreConversation(in.now, stored_user_message(sent),
                                     answer.text, backend, ModelOf(backend))
    IN  [raised   |-> answer.raised,
         response |-> answer.text,
         backend  |-> backend,
         model    |-> ModelOf(backend),
         call     |-> [adapter |-> backend, message |-> sent, context |-> context],
         conversations |->
             IF answer.raised THEN conversations ELSE stored.conversations,
         important_memories |->
             IF answer.raised THEN important_memories
             ELSE stored.important_memories]

\* ClaraOrchestrator.chat.  in holds what the environment contributes to the
\* call: the rows read from the store (assembled), the two probes, the
\* provider's outcome and reply, and the clock.
chat(message, use_claude, use_gemini, voice_mode, in) ==
    LET context == get_relevant_context(in.assembled)
        sent    == IF voice_mode THEN VoicePrefix \o message ELSE message
        backend == ChatBackend(use_claude, use_gemini, in.p62, in.p67)
        answer  == AdapterChat(backend, in.outcome, in.reply)
        stored  == StoreConversation(in.now, stored_user_message(sent),
                                     answer.text, backend, ModelOf(backend))
    IN  [raised   |-> answer.raised,
         response |-> answer.text,
         backend  |-> backend,
         model    |-> ModelOf(backend),
         call     |-> [adapter |-> backend, message |-> sent, context |-> context],
         conversations |->
             IF answer.raised THEN conversations ELSE stored.conversations,
         important_memories |->
             IF answer.raised THEN important_memories
             ELSE stored.important_memories]

\* as NeedsFrontier, the keywords looked up without lower-casing the message
NeedsFrontierCaseSensitive(message) ==
    \/ AnyIn(complex_indicators, message)
    \/ Len(message) > LongMessage

\* needs_frontier as smart_routing computes it
NeedsFrontier(message) ==
    \/ AnyIn(complex_indicators, Lower(message))
    \/ Len(message) > LongMessage

FrontierTable == [ m \in KnownMsgs |-> NeedsFrontier(m) ]

\* needs_frontier in smart_routing
needs_frontier(message) ==
    IF message \in KnownMsgs THEN FrontierTable[message]
    ELSE NeedsFrontier(message)

\* as smart_routing, any message sent to a frontier adapter once the store
\* has rows
smart_routing_adaptive(message, voice_mode, in) ==
    IF (needs_frontier(message) \/ in.assembled # <<>>)
       /\ ~voice_mode /\ ClaudeIsAvailable
    THEN chat(message, TRUE, FALSE, voice_mode, in)
    ELSE IF (needs_frontier(message) \/ in.assembled # <<>>)
            /\ ~voice_mode /\ GeminiIsAvailable
    THEN chat(message, FALSE, TRUE, voice_mode, in)
    ELSE chat(message, FALSE, FALSE, voice_mode, in)

\* ClaraOrchestrator.smart_routing
smart_routing(message, voice_mode, in) ==
    IF needs_frontier(message) /\ ~voice_mode /\ ClaudeIsAvailable
    THEN chat(message, TRUE, FALSE, voice_mode, in)
    ELSE IF needs_frontier(message) /\ ~voice_mode /\ GeminiIsAvailable
    THEN chat(message, FALSE, TRUE, voice_mode, in)
    ELSE chat(message, FALSE, FALSE, voice_mode, in)

\* str.split(sep)
RECURSIVE SplitOn(_, _)
SplitOn(s, sep) ==
    IF ~Contains(s, sep) THEN <<s>>
    ELSE <<SubSeq(s, 1, Find(s, sep) - 1)>>
         \o SplitOn(SubSeq(s, Find(s, sep) + Len(sep), Len(s)), sep)

\* sep.join(parts)
RECURSIVE Join(_, _)
Join(parts, sep) ==
    IF parts = <<>> THEN ""
    ELSE IF Len(parts) = 1 THEN Head(parts)
    ELSE Head(parts) \o sep \o Join(Tail(parts), sep)

\* the prompt of generate_voice_summary
SummaryPrompt(full_response, original_query) ==
    "Original question: " \o original_query
    \o " Full response: " \o full_response
    \o " Create a 1-2 sentence spoken response"

\* ClaraOrchestrator.generate_voice_summary
generate_voice_summary(full_response, original_query, outcome, reply) ==
    LET answer == OllamaChat(outcome, reply)
    IN  [text |-> IF answer.raised
                  THEN Join(Take(SplitOn(full_response, ". "), 2), ". ") \o "."
                  ELSE answer.text,
         call |-> [adapter |-> "ollama",
                   message |-> SummaryPrompt(full_response, original_query),
                   context |-> <<>>]]

(***************************************************************************)
(* Requests.  req records the request and what the environment contributed  *)
(* while it was served (rows read, probes, provider outcome, clock), res    *)
(* the reply, calls the adapter chat calls made while serving it.          *)
(***************************************************************************)
\* as Absent, an empty message let through
AbsentNone(message) == message = None

\* if not message
Absent(message) == message = None \/ message = ""

\* a request without the message field, and one with an empty message
NoMsgs == {None, ""}

\* the environment of one chat call: e without the rows, plus the rows
WithRows(e, assembled) ==
    [assembled |-> assembled, p62 |-> e.p62, p67 |-> e.p67,
     outcome |-> e.outcome, reply |-> e.reply, now |-> e.now]

\* as RouteChat, an override whose backend is unavailable handed to the
\* heuristic
RouteChatHeuristic(message, use_claude, use_gemini, voice_mode, in) ==
    IF use_claude /\ ClaudeIsAvailable
    THEN chat(message, TRUE, FALSE, voice_mode, in)
    ELSE IF use_gemini /\ ~use_claude /\ GeminiIsAvailable
    THEN chat(message, FALSE, TRUE, voice_mode, in)
    ELSE smart_routing(message, voice_mode, in)

\* the body of the /api/chat handler once the message is known to be present
RouteChat(message, use_claude, use_gemini, voice_mode, in) ==
    IF use_claude THEN chat(message, TRUE, FALSE, voice_mode, in)
    ELSE IF use_gemini THEN chat(message, FALSE, TRUE, voice_mode, in)
    ELSE smart_routing(message, voice_mode, in)

\* POST /api/chat without a message: 400
ChatRejected ==
    \E message \in { m \in NoMsgs : Absent(m) }, use_claude \in BOOLEAN,
       use_gemini \in BOOLEAN, voice_mode \in BOOLEAN :
        /\ req' = [op |-> "chat", message |-> message,
                   use_claude |-> use_claude, use_gemini |-> use_gemini,
                   voice_mode |-> voice_mode]
        /\ res' = [code |-> 400, status |-> "error"]
        /\ calls' = <<>>
        /\ UNCHANGED <<conversation_history, turns,
                       conversations, important_memories, current_model,
                       claude_client, gemini_model>>

\* POST /api/chat
ChatRequest(Msgs, Flags, Env, bound) ==
    /\ Len(conversations) < bound
    /\ \E message \in { m \in Msgs : ~Absent(m) } :
       \E assembled \in AssembledContexts(message) :
       \E f \in Flags, e \in Env :
        LET r == RouteChat(message, f.use_claude, f.use_gemini, f.voice_mode,
                           WithRows(e, assembled))
        IN  /\ req' = [op |-> "chat", message |-> message,
                       use_claude |-> f.use_claude, use_gemini |-> f.use_gemini,
                       voice_mode |-> f.voice_mode,
                       keywords |-> keywords_of(message),
                       in |-> WithRows(e, assembled)]
            /\ calls' = <<r.call>>
            /\ res' = IF r.raised
                      THEN [code |-> 500, status |-> "error"]
                      ELSE [code |-> 200, status |-> "success",
                            response |-> r.response,
                            backend |-> r.backend, model |-> r.model]
            /\ conversations' = r.conversations
            /\ important_memories' = r.important_memories
            /\ UNCHANGED <<conversation_history, turns,
                           current_model, claude_client, gemini_model>>

\* POST /api/voice when nothing was heard
VoiceSilent ==
    /\ req' = [op |-> "voice", message |-> None]
    /\ res' = [code |-> 200, status |-> "error"]
    /\ calls' = <<>>
    /\ UNCHANGED <<conversation_history, turns,
                   conversations, important_memories, current_model,
                   claude_client, gemini_model>>

\* POST /api/voice
VoiceRequest(Msgs, Env, bound) ==
    /\ Len(conversations) < bound
    /\ \E text \in Msgs :
       \E assembled \in AssembledContexts(text) :
       \E e \in Env, sum_outcome \in {"ok", "error"}, spoken \in BOOLEAN :
        LET r == smart_routing(text, FALSE, WithRows(e, assembled))
            v == generate_voice_summary(r.response, text, sum_outcome,
                                        SummaryReply)
        IN  /\ req' = [op |-> "voice", message |-> text,
                       use_claude |-> FALSE, use_gemini |-> FALSE,
                       voice_mode |-> FALSE,
                       keywords |-> keywords_of(text),
                       in |-> WithRows(e, assembled),
                       sum_outcome |-> sum_outcome]
            /\ calls' = IF r.raised THEN <<r.call>> ELSE <<r.call, v.call>>
            /\ res' = IF r.raised
                      THEN [code |-> 500, status |-> "error"]
                      ELSE [code |-> 200, status |-> "success",
                            input |-> text,
                            response |-> r.response,
                            voice_response |-> v.text,
                            backend |-> r.backend, model |-> r.model,
                            voice_output |-> TRUE, spoken |-> spoken]
            /\ conversations' = r.conversations
            /\ important_memories' = r.important_memories
            /\ UNCHANGED <<conversation_history, turns,
                           current_model, claude_client, gemini_model>>

\* an adapter's chat called on the adapter itself, configured or not
DirectChat(backend, answer, outcome) ==
    /\ req' = [op |-> "adapter_chat", adapter |-> backend, outcome |-> outcome]
    /\ res' = [raised |-> answer.raised, response |-> answer.text]
    /\ calls' = << [adapter |-> backend, message |-> "hi", context |-> <<>>] >>
    /\ UNCHANGED <<conversation_history, turns,
                   conversations, important_memories, current_model,
                   claude_client, gemini_model>>

\* OllamaClient.chat
OllamaCall ==
    \E outcome \in Outcomes :
        DirectChat("ollama", OllamaChat(outcome, Reply), outcome)

\* AnthropicClient.chat
ClaudeCall ==
    \E outcome \in Outcomes :
        DirectChat("claude", ClaudeChat(outcome, Reply), outcome)

\* GeminiClient.chat
GeminiCall ==
    \E outcome \in Outcomes :
        DirectChat("gemini", GeminiChat(outcome, Reply), outcome)

OtherModel == "mixtral:8x7b"
ModelNames == {DefaultModel, OtherModel, "nonexistent-model"}

\* what client.list() can give: a list of names, or an exception
Listings ==
    { [ok |-> TRUE, names |-> n] : n \in SUBSET {DefaultModel, OtherModel} }
    \cup { [ok |-> FALSE, names |-> {}] }

\* POST /api/switch_model
SwitchModel ==
    \E model_name \in ModelNames \cup {None}, listing \in Listings :
        LET r == OllamaSwitchModel(model_name, listing)
        IN  /\ req' = [op |-> "switch_model", model |-> model_name,
                       listing |-> listing, before |-> current_model]
            /\ res' = IF r.ok THEN [code |-> 200, status |-> "success"]
                              ELSE [code |-> 400, status |-> "error"]
            /\ current_model' = r.model
            /\ calls' = <<>>
            /\ UNCHANGED <<conversation_history, turns,
                           conversations, important_memories,
                           claude_client, gemini_model>>

\* GET /api/memory/recent
RecentMemory(bound) ==
    \E limit \in 1..(bound + 1) :
      \E rows \in get_recent_conversations(limit) :
        /\ req' = [op |-> "recent", limit |-> limit]
        /\ res' = [code |-> 200, status |-> "success", rows |-> rows]
        /\ calls' = <<>>
        /\ UNCHANGED <<conversation_history, turns,
                       conversations, important_memories, current_model,
                       claude_client, gemini_model>>

\* MemoryManager.store_conversation, called on the store directly
Store(Msgs, Responses, Times, bound) ==
    /\ Len(conversations) < bound
    /\ \E user_message \in Msgs, joi_response \in Responses, now \in Times :
        LET r == StoreConversation(now, user_message, joi_response,
                                   "ollama", current_model)
        IN  /\ req' = [op |-> "store", user_message |-> user_message,
                       joi_response |-> joi_response, backend |-> "ollama",
                       model |-> current_model, now |-> now]
            /\ res' = [code |-> 200, status |-> "success",
                       conversation_id |-> Len(r.conversations)]
            /\ calls' = <<>>
            /\ conversations' = r.conversations
            /\ important_memories' = r.important_memories
            /\ UNCHANGED <<conversation_history, turns,
                           current_model, claude_client, gemini_model>>

\* MemoryManager.search_memories, called on the store directly
Search(Queries, Limits) ==
    \E query \in Queries, limit \in Limits :
      \E rows \in search_memories(query, limit) :
        /\ req' = [op |-> "search", query |-> query, limit |-> limit]
        /\ res' = [code |-> 200, status |-> "success", rows |-> rows]
        /\ calls' = <<>>
        /\ UNCHANGED <<conversation_history, turns,
                       conversations, important_memories, current_model,
                       claude_client, gemini_model>>

\* the store operations that have committed their row and not yet run
\* check_importance
Pending == IF "pending" \in DOMAIN req THEN req.pending ELSE {}

\* MemoryManager.store_conversation up to conn.commit(): the row is written
StoreInsert(Msgs, Responses, Times, bound) ==
    /\ Len(conversations) < bound
    /\ \E user_message \in Msgs, joi_response \in Responses, now \in Times :
        /\ conversations' = InsertConversation(conversations, now, user_message,
                                               joi_response, "ollama",
                                               current_model)
        /\ req' = [op |-> "store_insert",
                   pending |-> Pending \cup {Len(conversations) + 1}]
        /\ res' = [code |-> 0]
        /\ calls' = <<>>
        /\ UNCHANGED <<conversation_history, turns,
                       important_memories, current_model, claude_client,
                       gemini_model>>

\* MemoryManager.store_conversation from check_importance on: the flag, if
\* the row qualifies, and the return
StoreCheck ==
    \E conversation_id \in Pending :
        /\ important_memories' =
              CheckImportance(important_memories, conversation_id,
                              conversations[conversation_id].user_message)
        /\ req' = [op |-> "store_check", conversation_id |-> conversation_id,
                   pending |-> Pending \ {conversation_id}]
        /\ res' = [code |-> 200, status |-> "success",
                   conversation_id |-> conversation_id]
        /\ calls' = <<>>
        /\ UNCHANGED <<conversation_history, turns,
                       conversations, current_model, claude_client,
                       gemini_model>>

\* the process dies and is started again: what was committed stays, the
\* store operations in progress are gone
Crash ==
    /\ Pending # {}
    /\ req' = [op |-> "crash", lost |-> Pending, pending |-> {}]
    /\ res' = [code |-> 0]
    /\ calls' = <<>>
    /\ UNCHANGED <<conversation_history, turns,
                   conversations, important_memories, current_model,
                   claude_client, gemini_model>>

(***************************************************************************)
(* Environments, and the specifications                                    *)
(***************************************************************************)
AllFlags == [use_claude : BOOLEAN, use_gemini : BOOLEAN, voice_mode : BOOLEAN]

\* no override, voice mode off
PlainFlags ==
    { [use_claude |-> FALSE, use_gemini |-> FALSE, voice_mode |-> FALSE] }

\* one reachability for the whole turn; the provider answers or fails
StableEnv ==
    { [p62 |-> up, p67 |-> up, outcome |-> o, reply |-> Reply, now |-> 1] :
      up \in BOOLEAN, o \in {"ok", "error"} }

\* one reachability for the whole turn, every provider outcome
OutcomeEnv ==
    { [p62 |-> up, p67 |-> up, outcome |-> o, reply |-> Reply, now |-> 1] :
      up \in BOOLEAN, o \in Outcomes }

\* every pair of probe results, the provider answering
ProbeEnv ==
    { [p62 |-> a, p67 |-> b, outcome |-> "ok", reply |-> Reply, now |-> 1] :
      a \in BOOLEAN, b \in BOOLEAN }

\* the local backend reachable, the provider answering, the clock advancing
\* with every exchange
TickEnv ==
    { [p62 |-> TRUE, p67 |-> TRUE, outcome |-> "ok", reply |-> r,
       now |-> Len(conversations) + 1] : r \in MemoryResponses }

Init == /\ conversations = <<>>
        /\ important_memories = <<>>
        /\ current_model = DefaultModel
        /\ claude_client \in BOOLEAN
        /\ gemini_model \in BOOLEAN
        /\ req = [op |-> "init"]
        /\ res = [code |-> 0]
        /\ calls = <<>>
        /\ conversation_history = <<>>
        /\ turns = <<>>

\* chat and voice turns
Next ==
    \/ ChatRejected
    \/ ChatRequest(BaseMsgs \cup NoMsgs, AllFlags, StableEnv, MaxStore)
    \/ VoiceSilent
    \/ VoiceRequest(BaseMsgs, StableEnv, MaxStore)

Spec == Init /\ [][Next]_vars

\* routing: every message class, override and probe result
NextRoute ==
    \/ ChatRequest(RouteMsgs, AllFlags, ProbeEnv, MaxTurns)
    \/ VoiceRequest(RouteMsgs, ProbeEnv, MaxTurns)

SpecRoute == Init /\ [][NextRoute]_vars

\* adapters: every provider outcome, and model switching
NextAdapters ==
    \/ ChatRequest(BaseMsgs, AllFlags, OutcomeEnv, MaxTurns)
    \/ VoiceRequest(BaseMsgs, OutcomeEnv, MaxTurns)
    \/ SwitchModel
    \/ OllamaCall
    \/ ClaudeCall
    \/ GeminiCall

SpecAdapters == Init /\ [][NextAdapters]_vars

\* voice: messages with and without the voice instruction in them
NextVoice ==
    \/ ChatRequest(VoiceMsgs, AllFlags, StableEnv, MaxTurns)
    \/ VoiceSilent
    \/ VoiceRequest(VoiceMsgs, StableEnv, MaxTurns)

SpecVoice == Init /\ [][NextVoice]_vars

\* the memory store on its own: stores at any clock value, and reads
NextMemory ==
    \/ Store(MemoryMsgs, MemoryResponses, 1..MaxTime, MaxStore)
    \/ RecentMemory(MaxStore)

SpecMemory == Init /\ [][NextMemory]_vars

\* neither frontier adapter configured
InitLocal == Init /\ ~claude_client /\ ~gemini_model

\* context assembly over a longer history
NextCtx == ChatRequest(CtxMsgs, PlainFlags, TickEnv, MaxCtxStore)

SpecCtx == InitLocal /\ [][NextCtx]_vars

\* texts to search in: one without a marker, a personal one, an explicit one
SearchMsgs == { "hi", "My Favorite tea", "important: i live in Oslo" }

\* a query in another case than the stored text, and one with LIKE's
\* one-character wildcard
SearchQueries == { "IMPORTANT", "t_a" }

\* searches over stores written at any clock value
NextSearch ==
    \/ Store(SearchMsgs, MemoryResponses, 1..MaxTime, MaxStore)
    \/ Search(SearchQueries, 1..MaxStore)

SpecSearch == InitLocal /\ [][NextSearch]_vars

\* a message with three keywords and a flag, and one with neither
WindowMsgs == { "important matter today", "hi" }

\* histories longer than the recency window
NextWindow == ChatRequest(WindowMsgs, PlainFlags, TickEnv, MaxWindowStore)

SpecWindow == InitLocal /\ [][NextWindow]_vars

\* turns whose messages repeat words
NextKeywords == ChatRequest(KeywordMsgs, AllFlags, TickEnv, MaxStore)

SpecKeywords == InitLocal /\ [][NextKeywords]_vars

\* store operations in two steps, several at a time, and crashes
NextCrash ==
    \/ StoreInsert(MemoryMsgs, {Reply}, {1}, MaxStore)
    \/ StoreCheck
    \/ Crash

SpecCrash == InitLocal /\ [][NextCrash]_vars

\* a simple and a complex message
PairMsgs == { "hi", "plan it" }

\* chat turns one after the other, over a growing store
NextPair == ChatRequest(PairMsgs, AllFlags, ProbeEnv, MaxStore)

SpecPair == Init /\ [][NextPair]_vars

(***************************************************************************)
(* JoiOrchestrator: two adapters and a conversation history held in memory *)
(***************************************************************************)
\* complex_indicators of JoiOrchestrator.smart_routing
JoiComplexIndicators ==
    << "analyze", "complex", "detailed", "explain in depth",
       "strategy", "comprehensive", "evaluate", "compare" >>

\* needs_claude, computed on the message
NeedsClaude(message) ==
    \/ \E i \in 1..Len(JoiComplexIndicators) :
          Contains(Lower(message), JoiComplexIndicators[i])
    \/ Len(message) > LongMessage

\* short messages: no indicator, an indicator in mixed case
JoiMsgs == { "hi", "Compare them" }

\* messages drawn in the first turns only: a keyword that is none of the
\* eight indicators, 500 characters and 501 characters without an indicator
JoiEarlyMsgs ==
    { "plan it", "hi" \o Blanks(LongMessage - 2),
      "hi" \o Blanks(LongMessage - 1) }

NeedsClaudeTable == [ m \in JoiMsgs \cup JoiEarlyMsgs |-> NeedsClaude(m) ]

\* needs_claude in smart_routing
needs_claude(message) ==
    IF message \in DOMAIN NeedsClaudeTable THEN NeedsClaudeTable[message]
    ELSE NeedsClaude(message)

\* JoiOrchestrator.get_context: history[-num_messages:], or [] when the
\* history is empty; a slice from -0 is a slice from 0
get_context(num_messages) ==
    IF conversation_history = <<>> THEN <<>>
    ELSE IF num_messages > 0 THEN LastN(conversation_history, num_messages)
    ELSE SubSeq(conversation_history, 1 - num_messages,
                Len(conversation_history))

\* the default of get_context's num_messages
DefaultContext == 10

\* the length add_to_history cuts the history to
HistoryLimit == 20

\* as add_to_history, the first 20 entries kept
add_to_history_oldest(history, user_message, joi_response) ==
    LET grown == history \o << [role |-> "user", content |-> user_message],
                              [role |-> "assistant", content |-> joi_response] >>
    IN  IF Len(grown) > HistoryLimit THEN SubSeq(grown, 1, HistoryLimit)
        ELSE grown

\* JoiOrchestrator.add_to_history
add_to_history(history, user_message, joi_response) ==
    LET grown == history \o << [role |-> "user", content |-> user_message],
                              [role |-> "assistant", content |-> joi_response] >>
    IN  IF Len(grown) > HistoryLimit THEN LastN(grown, HistoryLimit)
        ELSE grown

\* JoiOrchestrator.chat
joi_chat(message, use_claude, outcome, reply) ==
    LET backend  == IF use_claude /\ ClaudeIsAvailable THEN "claude"
                    ELSE "ollama"
        context  == get_context(DefaultContext)
        response == AdapterChat(backend, outcome, reply).text
    IN  [response |-> response,
         backend  |-> backend,
         model    |-> ModelOf(backend),
         call     |-> [adapter |-> backend, message |-> message,
                       context |-> context],
         conversation_history |->
             add_to_history(conversation_history, message, response)]

\* JoiOrchestrator.smart_routing
joi_smart_routing(message, outcome, reply) ==
    LET use_claude == needs_claude(message) /\ ClaudeIsAvailable
    IN  joi_chat(message, use_claude, outcome, reply)

\* what a turn of the orchestrator leaves behind
JoiTurn(entry, message, use_claude, r) ==
    /\ req' = [op |-> "joi", entry |-> entry, message |-> message,
               use_claude |-> use_claude]
    /\ res' = [response |-> r.response, backend |-> r.backend,
               model |-> r.model]
    /\ calls' = << r.call >>
    /\ conversation_history' = r.conversation_history
    /\ turns' = Append(turns, [message |-> message, response |-> r.response])
    /\ UNCHANGED <<conversations, important_memories, current_model,
                   claude_client, gemini_model>>

\* the messages a turn is drawn from
JoiInputs == JoiMsgs \cup (IF Len(turns) < MaxLongTurn THEN JoiEarlyMsgs ELSE {})

\* a call of JoiOrchestrator.chat
JoiChatCall ==
    /\ Len(turns) < MaxJoiTurns
    /\ \E message \in JoiInputs, use_claude \in BOOLEAN :
          JoiTurn("chat", message, use_claude,
                  joi_chat(message, use_claude, "ok", Reply))

\* a call of JoiOrchestrator.smart_routing
JoiSmartRoutingCall ==
    /\ Len(turns) < MaxJoiTurns
    /\ \E message \in JoiInputs :
          JoiTurn("smart_routing", message,
                  needs_claude(message) /\ ClaudeIsAvailable,
                  joi_smart_routing(message, "ok", Reply))

\* turns of the in-memory orchestrator
NextJoi == JoiChatCall \/ JoiSmartRoutingCall

\* JoiOrchestrator.__init__: the local adapter and Claude, an empty history
InitJoi == Init /\ ~gemini_model

SpecJoi == InitJoi /\ [][NextJoi]_vars

(***************************************************************************)
(* Routing properties (SpecRoute)                                          *)
(***************************************************************************)
\* the messages the heuristic is triggered by: a complexity keyword in them,
\* in any case, or more than 500 characters
ComplexMsgs ==
    { m \in KnownMsgs :
        \/ \E k \in 1..Len(complex_indicators) :
              Contains(Lower(m), complex_indicators[k])
        \/ Len(m) > LongMessage }

\* a chat request was answered
ChatAnswered == req.op = "chat" /\ res.code # 400

NoOverride == ~req.use_claude /\ ~req.use_gemini

FrontierAnswered == res.code = 200 /\ res.backend \in {"claude", "gemini"}

LocalAnswered == res.code = 200 /\ res.backend = "ollama"

\* C1 as stated: a complex message in a chat request without override, with
\* any voice mode, is answered by a frontier adapter when one is available,
\* and by the local adapter, without error, when none is.
C1_AnyVoiceMode ==
    (ChatAnswered /\ NoOverride /\ req.message \in ComplexMsgs) =>
        IF claude_client \/ gemini_model THEN FrontierAnswered
        ELSE LocalAnswered /\ res.status = "success"

\* C1 (amended): a complex message in a chat request without override and
\* with voice mode off is answered by a frontier adapter when at least one is
\* available, and by the local adapter, without error, only when neither is.
C1_FrontierForComplex ==
    (ChatAnswered /\ NoOverride /\ ~req.voice_mode
        /\ req.message \in ComplexMsgs) =>
        IF claude_client \/ gemini_model THEN FrontierAnswered
        ELSE LocalAnswered /\ res.status = "success"

C1_Witness ==
    /\ ChatAnswered /\ NoOverride /\ ~req.voice_mode
    /\ req.message = "EXPLAIN IN DEPTH"
    /\ ~claude_client /\ gemini_model
    /\ res.backend = "gemini"
    /\ req.in.p62 /\ req.in.p67

\* C2: a message without complexity keyword and of at most 500 characters, in
\* a chat request without override, is answered by the local adapter when the
\* local backend is reachable, and when it is unreachable by adapter A if
\* available, else by adapter B if available, else by the local adapter.
C2_LocalForSimple ==
    (ChatAnswered /\ NoOverride /\ req.message \notin ComplexMsgs) =>
        /\ (req.in.p62 /\ req.in.p67) => LocalAnswered
        /\ (~req.in.p62 /\ ~req.in.p67) =>
              /\ res.code = 200
              /\ res.backend = IF claude_client THEN "claude"
                               ELSE IF gemini_model THEN "gemini"
                               ELSE "ollama"

C2_Witness ==
    /\ ChatAnswered /\ NoOverride
    /\ Len(req.message) = LongMessage
    /\ ~req.in.p62 /\ ~req.in.p67
    /\ claude_client /\ gemini_model
    /\ res.backend = "claude"

\* what the keyword/length heuristic selects for a message, the availability
\* flags and the reachability of the local backend
HeuristicChoice(message, reachable) ==
    IF message \in ComplexMsgs
    THEN IF claude_client THEN "claude"
         ELSE IF gemini_model THEN "gemini" ELSE "ollama"
    ELSE IF reachable THEN "ollama"
         ELSE IF claude_client THEN "claude"
         ELSE IF gemini_model THEN "gemini" ELSE "ollama"

\* a request forcing exactly one backend, served with voice mode off while the
\* reachability of the local backend did not change
OneForced ==
    /\ ChatAnswered /\ res.code = 200
    /\ req.use_claude # req.use_gemini
    /\ ~req.voice_mode
    /\ req.in.p62 = req.in.p67

\* C3 as stated: a forced backend answers when it is available; when it is
\* not, the backend that answers is the one the heuristic selects.
C3_HeuristicWhenUnavailable ==
    OneForced =>
        LET forced == IF req.use_claude THEN "claude" ELSE "gemini"
            available == IF req.use_claude THEN claude_client ELSE gemini_model
        IN  res.backend = IF available THEN forced
                          ELSE HeuristicChoice(req.message, req.in.p62)

\* C3 (amended): a request forcing A (alone or with B) is answered by A when
\* A is available, and one forcing only B by B when B is available.  When the
\* forced backend is unavailable the message content plays no part: the
\* local adapter answers, unless the local backend is unreachable and the
\* other frontier adapter is available, which then answers.
C3_OverrideThenReachability ==
    (ChatAnswered /\ (req.use_claude \/ req.use_gemini)) =>
        /\ res.code = 200
        /\ res.backend =
             IF req.use_claude
             THEN IF claude_client THEN "claude"
                  ELSE IF gemini_model /\ ~req.in.p67 THEN "gemini"
                  ELSE "ollama"
             ELSE IF gemini_model THEN "gemini"
                  ELSE IF claude_client /\ ~req.in.p62 THEN "claude"
                  ELSE "ollama"

C3_Witness ==
    /\ ChatAnswered /\ req.use_claude /\ ~req.use_gemini
    /\ req.message \in ComplexMsgs
    /\ ~claude_client /\ gemini_model
    /\ req.in.p62 /\ req.in.p67
    /\ res.backend = "ollama"

(***************************************************************************)
(* Context assembly (SpecCtx)                                              *)
(***************************************************************************)
\* the context handed to the adapter in the chat turn just served
LastContext == calls[1].context

\* the exchanges stored before the turn just served
StoredBefore == SubSeq(conversations, 1, Len(conversations) - 1)

\* C4: the context built for a turn has at most 20 fragments and is made of
\* whole pairs: even length, and every fragment in an even position (counted
\* from 0) is a user fragment followed by the assistant fragment of the same
\* stored exchange.
C4_ContextWholePairs ==
    (req.op = "chat" /\ res.code = 200) =>
        /\ Len(LastContext) <= 20
        /\ Len(LastContext) % 2 = 0
        /\ \A i \in 1..Len(LastContext) :
              i % 2 = 1 =>
                /\ LastContext[i].role = "user"
                /\ LastContext[i + 1].role = "assistant"
                /\ \E c \in 1..Len(StoredBefore) :
                      /\ StoredBefore[c].user_message = LastContext[i].content
                      /\ StoredBefore[c].joi_response = LastContext[i + 1].content

\* a turn whose assembled context had 22 fragments and was cut to 20
C4_Witness ==
    /\ req.op = "chat" /\ res.code = 200
    /\ Len(req.in.assembled) = 22
    /\ Len(LastContext) = 20
    /\ LastContext # SubSeq(req.in.assembled, 1, 20)

(***************************************************************************)
(* Importance flags                                                        *)
(***************************************************************************)
\* the user texts with an explicit importance marker, whatever the case
ExplicitTexts ==
    { t \in MemoryMsgs :
        \E k \in 1..Len(importance_keywords) :
            Contains(Lower(t), importance_keywords[k]) }

\* the user texts with a personal-disclosure marker, whatever the case
PersonalTexts ==
    { t \in MemoryMsgs :
        \E k \in 1..Len(personal_markers) :
            Contains(Lower(t), personal_markers[k]) }

\* the scores of the flags that reference exchange c
FlagScores(c) ==
    { important_memories[f].importance_score :
        f \in { g \in 1..Len(important_memories) :
                  important_memories[g].conversation_id = c } }

\* C5: a stored exchange has a flag of score 1.0 exactly when its user text
\* has an explicit marker, a flag of score 0.8 exactly when it has a personal
\* marker and no explicit one, and no flag when it has neither, whatever the
\* response text says.
C5_FlagsFollowUserText ==
    \A c \in 1..Len(conversations) :
        LET t == conversations[c].user_message
        IN  /\ (ExplicitScore \in FlagScores(c)) <=> (t \in ExplicitTexts)
            /\ (PersonalScore \in FlagScores(c))
                  <=> (t \in PersonalTexts /\ t \notin ExplicitTexts)
            /\ (t \notin ExplicitTexts /\ t \notin PersonalTexts)
                  => FlagScores(c) = {}

\* both families in one text flagged 1.0, and a marker in the response alone
\* leaving the exchange unflagged
C5_Witness ==
    /\ Len(conversations) = 2
    /\ conversations[1].user_message = "important: i live in Oslo"
    /\ FlagScores(1) = {ExplicitScore}
    /\ conversations[2].user_message = "hi"
    /\ conversations[2].joi_response = "that is important"
    /\ FlagScores(2) = {}

(***************************************************************************)
(* Recent exchanges                                                        *)
(***************************************************************************)
\* C6: recentExchanges(n) returns the min(n, total) most recently stored
\* exchanges, oldest first in storage order, as they were stored.
C6_RecentIsLastStored ==
    req.op = "recent" =>
        res.rows = LastN(conversations, Min({req.limit, Len(conversations)}))

(***************************************************************************)
(* Adapters                                                                *)
(***************************************************************************)
FallbackTexts ==
    [ollama |-> {OllamaFallback},
     claude |-> {ClaudeNotConfigured, ClaudeRateLimited, ClaudeApiError,
                 ClaudeUnexpected},
     gemini |-> {GeminiNotConfigured, GeminiFallback}]

\* the provider behind the adapter is configured
Configured(backend) ==
    CASE backend = "claude" -> claude_client
      [] backend = "gemini" -> gemini_model
      [] OTHER              -> TRUE

\* C7: an adapter's chat never raises; unconfigured, or with a failing
\* provider call, it returns one of its fallback texts, and a turn served
\* that way completes with that text as its response.
C7_AdaptersFailSoft ==
    /\ req.op = "adapter_chat" =>
          /\ ~res.raised
          /\ (~Configured(req.adapter) \/ req.outcome # "ok")
                => res.response \in FallbackTexts[req.adapter]
    /\ (req.op \in {"chat", "voice"} /\ req.in.outcome # "ok") =>
          /\ res.code = 200 /\ res.status = "success"
          /\ res.response \in FallbackTexts[res.backend]
          /\ calls[1].adapter = res.backend
          /\ conversations[Len(conversations)].joi_response = res.response

\* a chat turn whose call to the first frontier provider was rate-limited
C7_Witness ==
    /\ req.op = "chat" /\ req.in.outcome = "rate_limit"
    /\ res.code = 200 /\ res.backend = "claude"
    /\ res.response = ClaudeRateLimited
    /\ conversations[Len(conversations)].joi_response = ClaudeRateLimited

\* C8: switching succeeds and changes the current model exactly when the name
\* is in the list fetched for the call; otherwise the request fails and the
\* current model stays as it was.
C8_SwitchOnlyListed ==
    req.op = "switch_model" =>
        IF req.listing.ok /\ req.model \in req.listing.names
        THEN res.code = 200 /\ res.status = "success"
             /\ current_model = req.model
        ELSE res.code = 400 /\ res.status = "error"
             /\ current_model = req.before

\* a switch to another listed model, and afterwards a refused one
C8_Witness ==
    /\ req.op = "switch_model" /\ res.code = 400
    /\ req.model = "nonexistent-model" /\ req.listing.ok
    /\ req.listing.names # {}
    /\ current_model = OtherModel

(***************************************************************************)
(* The exchange store                                                      *)
(***************************************************************************)
\* the step completes a chat or voice turn
TurnCompleted ==
    /\ req'.op \in {"chat", "voice"}
    /\ res'.code = 200 /\ res'.status = "success"

\* the step leaves the stored exchanges as they are and adds one that holds
\* what the caller is given
OneAppended ==
    /\ Len(conversations') = Len(conversations) + 1
    /\ SubSeq(conversations', 1, Len(conversations)) = conversations
    /\ conversations'[Len(conversations')].joi_response = res'.response
    /\ conversations'[Len(conversations')].backend = res'.backend
    /\ conversations'[Len(conversations')].model = res'.model

\* the step removes and changes no stored exchange
NothingRewritten ==
    /\ Len(conversations') >= Len(conversations)
    /\ SubSeq(conversations', 1, Len(conversations)) = conversations

\* C9 as stated: every completed turn calls chat on exactly one adapter and
\* appends exactly one exchange.
C9_OneAdapterPerTurn ==
    [][ /\ NothingRewritten
        /\ TurnCompleted =>
              /\ OneAppended
              /\ Cardinality({ calls'[i].adapter : i \in 1..Len(calls') }) = 1
      ]_vars

\* C9: the store is append-only; a completed text turn calls chat once, on the
\* adapter that answers; a completed voice turn calls the answering adapter
\* once and then the local adapter once for the condensed version; either
\* appends exactly one exchange holding what the caller is given.
C9_AppendOnlyOnePerTurn ==
    [][ /\ NothingRewritten
        /\ TurnCompleted =>
              /\ OneAppended
              /\ calls'[1].adapter = res'.backend
              /\ (req'.op = "chat") => (Len(calls') = 1)
              /\ (req'.op = "voice") =>
                    (Len(calls') = 2 /\ calls'[2].adapter = "ollama")
      ]_vars

\* a second exchange appended by a voice turn that a frontier adapter
\* answered with its fallback text
C9_Witness ==
    /\ req.op = "voice" /\ res.code = 200 /\ res.status = "success"
    /\ req.in.outcome = "error"
    /\ res.backend = "claude"
    /\ Len(calls) = 2 /\ calls[2].adapter = "ollama"
    /\ Len(conversations) = 2
    /\ conversations[2].joi_response = res.response

(***************************************************************************)
(* Voice                                                                   *)
(***************************************************************************)
\* C10: a voice interaction returns the full and the condensed response and
\* stores one exchange, which holds the full response and not the prompt of
\* the summary; a chat turn in voice mode stores the caller's original
\* message.
C10_StoredAsSpoken ==
    [][ /\ (req'.op = "voice" /\ res'.status = "success") =>
              /\ {"response", "voice_response"} \subseteq DOMAIN res'
              /\ OneAppended
              /\ conversations'[Len(conversations')].user_message
                    # calls'[2].message
        /\ (req'.op = "chat" /\ res'.code = 200 /\ req'.voice_mode) =>
              /\ OneAppended
              /\ conversations'[Len(conversations')].user_message
                    = req'.message
      ]_vars

(***************************************************************************)
(* Voice condensation                                                      *)
(***************************************************************************)
\* full_response.split('. ')[:2] joined with '. ' and closed with '.'
FirstTwoSentences(full_response) ==
    Join(Take(SplitOn(full_response, ". "), 2), ". ") \o "."

\* C11: when the summary call to the local backend fails, the condensed
\* version of a voice turn is the first two ". "-delimited fragments of the
\* full response joined with ". " and closed with a period.
C11_SplitWhenSummaryFails ==
    (req.op = "voice" /\ res.status = "success" /\ req.sum_outcome # "ok") =>
        res.voice_response = FirstTwoSentences(res.response)

(***************************************************************************)
(* Rejected requests                                                       *)
(***************************************************************************)
\* C12: a chat request without a message, or with an empty one, gets a
\* structured error with status 400 and changes nothing: no rows are read
\* for a context, no adapter is called, nothing is stored.
C12_AbsentMessageRejected ==
    [][ (req'.op = "chat" /\ req'.message \in NoMsgs) =>
            /\ res' = [code |-> 400, status |-> "error"]
            /\ "in" \notin DOMAIN req'
            /\ calls' = <<>>
            /\ UNCHANGED <<conversations, important_memories, current_model,
                           claude_client, gemini_model>>
      ]_vars

\* an empty message rejected after an exchange was stored
C12_Witness ==
    /\ req.op = "chat" /\ req.message = ""
    /\ res.code = 400
    /\ calls = <<>>
    /\ Len(conversations) = 1

(***************************************************************************)
(* Order of the frontier adapters                                          *)
(***************************************************************************)
\* C13: in a chat turn without override the second frontier adapter answers
\* only if the first is unavailable, whatever the two reachability probes of
\* the turn return.
C13_SecondOnlyWithoutFirst ==
    (ChatAnswered /\ NoOverride /\ res.code = 200 /\ res.backend = "gemini")
        => ~claude_client

(***************************************************************************)
(* Routing is stateless (SpecPair)                                         *)
(***************************************************************************)
\* the step goes from one answered chat turn to the next, both with the same
\* message and override flags and the same answers of the availability
\* tests; the provider configuration never changes
SameRoutingInputs ==
    /\ req.op = "chat" /\ res.code = 200
    /\ req'.op = "chat" /\ res'.code = 200
    /\ req'.message = req.message
    /\ req'.use_claude = req.use_claude
    /\ req'.use_gemini = req.use_gemini
    /\ req'.in.p62 = req.in.p62
    /\ req'.in.p67 = req.in.p67
    /\ claude_client' = claude_client
    /\ gemini_model' = gemini_model

\* C14 as stated: two turns with the same message, override flags and
\* availability flags (the local backend either reachable or not during a
\* turn) select the same backend.
C14_SameInputsSameBackend ==
    [][ (SameRoutingInputs /\ req.in.p62 = req.in.p67)
            => res'.backend = res.backend ]_vars

\* C14: two turns with the same message, override flags, voice mode and
\* availability answers select the same backend, whatever the store holds.
C14_SameInputsAndVoiceMode ==
    [][ (SameRoutingInputs /\ req'.voice_mode = req.voice_mode)
            => res'.backend = res.backend ]_vars

\* the same complex message answered twice by the first frontier adapter,
\* the second time with the first exchange in the store
C14_Witness ==
    /\ req.op = "chat" /\ res.code = 200
    /\ req.message = "plan it" /\ ~req.use_claude /\ ~req.use_gemini
    /\ ~req.voice_mode
    /\ req.in.assembled # <<>>
    /\ Len(conversations) = 2
    /\ conversations[1].user_message = "plan it"
    /\ conversations[1].backend = "claude"
    /\ conversations[2].backend = "claude"

(***************************************************************************)
(* Flags and exchanges (SpecCrash)                                         *)
(***************************************************************************)
\* the flags that reference exchange c
FlagsOf(c) ==
    { f \in 1..Len(important_memories) :
        important_memories[f].conversation_id = c }

\* C15: in every state of the store, also after a crash between the write of
\* an exchange and the write of its flag, every flag references an existing
\* exchange and every exchange has at most one flag.
C15_FlagsReferenceExchanges ==
    /\ \A f \in 1..Len(important_memories) :
          important_memories[f].conversation_id \in 1..Len(conversations)
    /\ \A c \in 1..Len(conversations) : Cardinality(FlagsOf(c)) <= 1

\* after a crash: an exchange that qualifies and lost its flag, next to one
\* that has its flag
C15_Witness ==
    /\ req.op = "crash"
    /\ Len(conversations) = 2
    /\ conversations[1].user_message = "REMEMBER THIS"
    /\ conversations[2].user_message = "REMEMBER THIS"
    /\ Cardinality(FlagsOf(1)) + Cardinality(FlagsOf(2)) = 1

(***************************************************************************)
(* Timestamps                                                              *)
(***************************************************************************)
\* C16: the timestamps of the stored exchanges never decrease in storage
\* order, whatever the wall clock returns at store time.
C16_TimestampsNonDecreasing ==
    \A i \in 1..Len(conversations), j \in 1..Len(conversations) :
        i < j => conversations[i].timestamp <= conversations[j].timestamp

(***************************************************************************)
(* Search (SpecSearch)                                                     *)
(***************************************************************************)
\* text contains query, letter case ignored
ContainsAnyCase ==
    [ t \in SearchMsgs \cup MemoryResponses |->
        [ q \in SearchQueries |-> Contains(Lower(t), Lower(q)) ] ]

\* the exchanges whose user text or response text contains the query
Matching(query) ==
    { c \in 1..Len(conversations) :
        \/ ContainsAnyCase[conversations[c].user_message][query]
        \/ ContainsAnyCase[conversations[c].joi_response][query] }

\* the score of exchange c, 0 when it has no flag
ScoreOfExchange(c) ==
    IF FlagsOf(c) = {} THEN 0
    ELSE important_memories[CHOOSE f \in FlagsOf(c) : TRUE].importance_score

\* exchange c is what row reports
RowOf(row, c) ==
    /\ row.timestamp = conversations[c].timestamp
    /\ row.user_message = conversations[c].user_message
    /\ row.joi_response = conversations[c].joi_response
    /\ row.importance = ScoreOfExchange(c)

\* exchange d ranks above what row reports
RanksAbove(d, row) ==
    \/ ScoreOfExchange(d) > row.importance
    \/ /\ ScoreOfExchange(d) = row.importance
       /\ conversations[d].timestamp > row.timestamp

\* C17: a search returns at most limit rows, each a stored exchange that
\* contains the query (letter case ignored) in its user or response text,
\* with the importance of its flag or 0.0 without one, ordered by importance
\* descending and then most recent first, and leaves out no matching exchange
\* that ranks above a returned one.
C17_SearchReturnsSubstringMatches ==
    req.op = "search" =>
        /\ Len(res.rows) <= req.limit
        /\ \A i \in 1..Len(res.rows) :
              \E c \in Matching(req.query) : RowOf(res.rows[i], c)
        /\ \A i \in 1..Len(res.rows), j \in 1..Len(res.rows) :
              i < j =>
                \/ res.rows[i].importance > res.rows[j].importance
                \/ /\ res.rows[i].importance = res.rows[j].importance
                   /\ res.rows[i].timestamp >= res.rows[j].timestamp
        /\ Len(res.rows) < req.limit =>
              Len(res.rows) = Cardinality(Matching(req.query))
        /\ \A d \in Matching(req.query), i \in 1..Len(res.rows) :
              RanksAbove(d, res.rows[i]) =>
                  \E k \in 1..Len(res.rows) : RowOf(res.rows[k], d)

(***************************************************************************)
(* Keywords (SpecKeywords)                                                 *)
(***************************************************************************)
\* words without the repetitions of earlier words
RECURSIVE Distinct(_)
Distinct(words) ==
    IF words = <<>> THEN <<>>
    ELSE LET rest == Distinct(SubSeq(words, 1, Len(words) - 1))
             last == words[Len(words)]
         IN  IF \E i \in 1..Len(rest) : rest[i] = last
             THEN rest ELSE Append(rest, last)

\* the first 3 distinct words longer than 4 characters, per message
FirstDistinctKeywords ==
    [ m \in KeywordMsgs |->
        Take(Distinct(SelectSeq(Split(m), LAMBDA w : Len(w) > 4)), 3) ]

\* C18: the keywords searched for a message are its first 3 distinct words
\* longer than 4 characters, in message order; a repeated word is searched
\* once.
C18_KeywordsDistinct ==
    (req.op = "chat" /\ res.code = 200) =>
        req.keywords = FirstDistinctKeywords[req.message]

(***************************************************************************)
(* Important matches in the context (SpecCtx)                              *)
(***************************************************************************)
\* the list get_relevant_context built for the turn, before its final slice
Assembled == req.in.assembled

\* the length of the recency window in fragments
WindowLen ==
    2 * (IF Len(StoredBefore) < RecentLimit THEN Len(StoredBefore)
         ELSE RecentLimit)

\* the fragments ahead of the recency window
Prepended == SubSeq(Assembled, 1, Len(Assembled) - WindowLen)

\* text contains keyword, letter case ignored
CtxContains ==
    [ t \in CtxMsgs \cup MemoryResponses |->
        [ k \in {"important", "matter", "today"} |->
            Contains(Lower(t), Lower(k)) ] ]

\* exchange c matches keyword k in its user text or its response text
Matches(c, k) ==
    \/ CtxContains[conversations[c].user_message][k]
    \/ CtxContains[conversations[c].joi_response][k]

\* exchange d comes before exchange c in a search: higher score, or the same
\* score and more recent
Before(d, c) ==
    \/ ScoreOfExchange(d) > ScoreOfExchange(c)
    \/ /\ ScoreOfExchange(d) = ScoreOfExchange(c)
       /\ conversations[d].timestamp > conversations[c].timestamp

\* exchange c is among the top 2 results of the search for keyword k
InTopTwo(c, k) ==
    /\ Matches(c, k)
    /\ Cardinality({ d \in 1..Len(StoredBefore) :
                       Matches(d, k) /\ Before(d, c) }) < SearchLimit

\* C19: every pair ahead of the recency window is a user fragment and then
\* the assistant fragment of a stored exchange that is among the top 2
\* results of one of the keywords and has a flag with a score above 0.5; an
\* exchange without a flag is never put there.
C19_PrependedAreFlaggedMatches ==
    (req.op = "chat" /\ res.code = 200) =>
        /\ Len(Prepended) % 2 = 0
        /\ \A i \in 1..Len(Prepended) :
              i % 2 = 1 =>
                /\ Prepended[i].role = "user"
                /\ Prepended[i + 1].role = "assistant"
                /\ \E c \in 1..Len(StoredBefore) :
                      /\ conversations[c].user_message = Prepended[i].content
                      /\ conversations[c].joi_response
                            = Prepended[i + 1].content
                      /\ FlagsOf(c) # {}
                      /\ ScoreOfExchange(c) > ImportantAbove
                      /\ \E k \in 1..Len(req.keywords) :
                            InTopTwo(c, req.keywords[k])

\* the search for "today" finds a flagged and an unflagged exchange, and only
\* the flagged one is put ahead of the two exchanges of the recency window
C19_Witness ==
    /\ req.op = "chat" /\ res.code = 200
    /\ req.message = "today"
    /\ Len(StoredBefore) = 2
    /\ conversations[1].user_message = "important matter today"
    /\ conversations[2].user_message = "today"
    /\ FlagsOf(2) = {}
    /\ Len(Prepended) = 2
    /\ Prepended[1].content = "important matter today"

(***************************************************************************)
(* What the truncation drops (SpecCtx)                                     *)
(***************************************************************************)
\* a turn whose assembled context was longer than the limit
Truncated ==
    /\ req.op = "chat" /\ res.code = 200
    /\ Len(Assembled) > ContextLimit

\* the fragments of the recency window, which are added first
Window ==
    SubSeq(Assembled, Len(Assembled) - WindowLen + 1, Len(Assembled))

\* the 20 fragments added last: the prepended matches, all added after the
\* window, and the end of the window
LastAdded ==
    Prepended \o LastN(Window, ContextLimit - Len(Prepended))

\* C20 as stated: of more than 20 assembled fragments the 20 added last are
\* returned, the ones added earliest are dropped.
C20_KeepsLastAdded ==
    Truncated => LastContext = LastAdded

\* C20: of more than 20 assembled fragments the 20 at the end of the list are
\* returned: the whole recency window and, ahead of it, the matches inserted
\* first; the fragments dropped are the ones at the front, which were
\* inserted last, for the last keyword.
C20_KeepsEndOfList ==
    Truncated =>
        /\ LastContext = SubSeq(Assembled, Len(Assembled) - ContextLimit + 1,
                                Len(Assembled))
        /\ LastN(LastContext, WindowLen) = Window
        /\ Window = RecentToContext(LastN(StoredBefore, RecentLimit))
        /\ \A i \in 1..(Len(Assembled) - ContextLimit) :
              i % 2 = 1 =>
                \E c \in 1..Len(StoredBefore) :
                    /\ conversations[c].user_message = Assembled[i].content
                    /\ conversations[c].joi_response
                          = Assembled[i + 1].content
                    /\ InTopTwo(c, req.keywords[Len(req.keywords)])

\* 22 fragments assembled; the pair dropped at the front is not the pair next
\* in line, and the oldest exchange of the window is still there
C20_Witness ==
    /\ Truncated
    /\ Len(Assembled) = 22
    /\ Assembled[2] # Assembled[4]
    /\ LastContext[11].content = conversations[1].user_message
    /\ LastContext # LastAdded

(***************************************************************************)
(* The recency window survives (SpecWindow)                                *)
(***************************************************************************)
\* the exchanges S by timestamp, oldest first
RECURSIVE Chronological(_)
Chronological(S) ==
    IF S = {} THEN <<>>
    ELSE LET first == CHOOSE c \in S :
                          \A d \in S : conversations[c].timestamp
                                          <= conversations[d].timestamp
         IN  <<first>> \o Chronological(S \ {first})

\* the min(5, total) exchanges with the latest timestamps, oldest first
MostRecent ==
    LET ids == LastN(Chronological(1..Len(StoredBefore)), RecentLimit)
    IN  [ i \in 1..Len(ids) |-> conversations[ids[i]] ]

\* C21: the context returned ends with the user/assistant pairs of the
\* min(5, total) most recent exchanges, oldest first; the list assembled
\* before truncation has at most 22 fragments, so truncation removes at most
\* one pair, and that pair is the match inserted last: the second result of
\* the last keyword.
C21_WindowSurvives ==
    (req.op = "chat" /\ res.code = 200) =>
        /\ LastN(LastContext, 2 * Len(MostRecent)) = RecentToContext(MostRecent)
        /\ Len(Assembled) <= 22
        /\ Len(Assembled) - Len(LastContext) \in {0, 2}
        /\ Len(Assembled) > Len(LastContext) =>
              /\ LastContext = SubSeq(Assembled, 3, Len(Assembled))
              /\ Len(req.keywords) = KeywordLimit
              /\ \E c \in 1..Len(StoredBefore) :
                    /\ conversations[c].user_message = Assembled[1].content
                    /\ conversations[c].joi_response = Assembled[2].content
                    /\ ScoreOfExchange(c) > ImportantAbove
                    /\ Matches(c, req.keywords[KeywordLimit])
                    /\ Cardinality({ d \in 1..Len(StoredBefore) :
                                       /\ Matches(d, req.keywords[KeywordLimit])
                                       /\ Before(d, c) }) = 1

\* one pair cut from 22 fragments while the window stays whole: the last five
\* of six stored exchanges, the oldest one left out
C21_Witness ==
    /\ req.op = "chat" /\ res.code = 200
    /\ Len(Assembled) = 22 /\ Len(LastContext) = 20
    /\ Len(StoredBefore) = 6
    /\ conversations[1].user_message = "important matter today"
    /\ conversations[2].user_message = "hi"
    /\ Len(MostRecent) = 5
    /\ LastContext[11].content = "hi"
    /\ LastContext[20].content = conversations[6].joi_response

(***************************************************************************)
(* Voice mode and the frontier adapters (SpecRoute)                        *)
(***************************************************************************)
\* a chat request without override, voice mode on, was answered
VoiceModeAnswered ==
    /\ ChatAnswered /\ NoOverride /\ res.code = 200
    /\ req.voice_mode

\* C22: with voice mode on and no override, complexity never sends the turn
\* to a frontier adapter: the local adapter answers whenever the local
\* backend is reachable, and a frontier adapter answers only when it is
\* available and the probe made for it reports the local backend unreachable.
C22_VoiceModeStaysLocal ==
    VoiceModeAnswered =>
        /\ (req.in.p62 /\ req.in.p67) => res.backend = "ollama"
        /\ res.backend = "claude" => (claude_client /\ ~req.in.p62)
        /\ res.backend = "gemini" => (gemini_model /\ ~req.in.p67)

\* a long message in voice mode answered locally with both frontier adapters
\* available
C22_Witness ==
    /\ VoiceModeAnswered
    /\ Len(req.message) > LongMessage
    /\ claude_client /\ gemini_model
    /\ req.in.p62 /\ req.in.p67
    /\ res.backend = "ollama"

(***************************************************************************)
(* The in-memory orchestrator (SpecJoi)                                    *)
(***************************************************************************)
\* the turns completed so far as history entries, oldest first
TurnEntries ==
    [ i \in 1..(2 * Len(turns)) |->
        IF i % 2 = 1
        THEN [role |-> "user", content |-> turns[(i + 1) \div 2].message]
        ELSE [role |-> "assistant", content |-> turns[i \div 2].response] ]

\* the history as it was when the turn just served began
HistoryBefore ==
    LastN(SubSeq(TurnEntries, 1, 2 * (Len(turns) - 1)), HistoryLimit)

\* the messages with one of the eight indicators in them, in any case, or
\* more than 500 characters
JoiComplexMsgs ==
    { m \in JoiMsgs \cup JoiEarlyMsgs :
        \/ \E k \in 1..Len(JoiComplexIndicators) :
              Contains(Lower(m), JoiComplexIndicators[k])
        \/ Len(m) > LongMessage }

\* at most 20 entries, an even number of them, user and assistant in turn
\* from a user entry on, the most recent turns in order; the context is the
\* last 10 entries at most, now and in the turn just served
HistoryKept ==
    /\ Len(conversation_history) <= 20
    /\ Len(conversation_history) % 2 = 0
    /\ \A i \in 1..Len(conversation_history) :
          conversation_history[i].role =
              IF i % 2 = 1 THEN "user" ELSE "assistant"
    /\ conversation_history = LastN(TurnEntries, 20)
    /\ Len(get_context(DefaultContext)) <= 10
    /\ get_context(DefaultContext) = LastN(conversation_history, 10)
    /\ req.op = "joi" => calls[1].context = LastN(HistoryBefore, 10)

\* C23 as stated: the history holds at most 20 entries, of even length,
\* user/assistant in turn, the most recent turns in order; get_context()
\* returns at most the last 10; the frontier adapter answers a turn only if it
\* is available and the message is complex or longer than 500 characters.
C23_HistoryAndComplexOnly ==
    /\ HistoryKept
    /\ (req.op = "joi" /\ res.backend = "claude") =>
          (claude_client /\ req.message \in JoiComplexMsgs)

\* C23 (amended): the history clauses as stated; the frontier adapter answers
\* a turn exactly when it is available and either chat was called with
\* use_claude set, whatever the message, or smart_routing was called with a
\* message that has one of the eight indicators or more than 500 characters.
C23_HistoryAndForcedOrComplex ==
    /\ HistoryKept
    /\ req.op = "joi" =>
          (res.backend = "claude" <=>
              /\ claude_client
              /\ IF req.entry = "chat" THEN req.use_claude
                 ELSE req.message \in JoiComplexMsgs)

\* the eleventh turn has pushed the first one out of the history, and it was
\* a chat call that sent a plain message to the frontier adapter
C23_Witness ==
    /\ Len(turns) = 11
    /\ Len(conversation_history) = 20
    /\ turns[1].message # turns[2].message
    /\ conversation_history[1].content = turns[2].message
    /\ Len(calls[1].context) = 10
    /\ req.op = "joi" /\ req.entry = "chat" /\ req.use_claude
    /\ req.message = "hi"
    /\ claude_client
    /\ res.backend = "claude"

====
